---- MODULE Spec2Model ----
(***************************************************************************)
(* Model of the alert store of Interface/backend_.py: the process-wide     *)
(* document alerts_database, the JSON files it is loaded from and merged   *)
(* into, and the five operations load_alerts_from_file,                    *)
(* save_alerts_to_file, add_alert_by_time, get_alerts_by_time and          *)
(* get_unread_alerts.                                                      *)
(*                                                                         *)
(* A Python dict is a function whose DOMAIN is its key set.  The           *)
(* alerts_by_time dict is kept as a sequence of [hour, alert] entries with *)
(* distinct hours, because Python dicts (and json.load / json.dump)        *)
(* preserve insertion order and get_unread_alerts exposes that order.      *)
(* Hours are strings, as the store's precondition demands; for string keys *)
(* and lists/strings/numbers/booleans json.dump followed by json.load      *)
(* gives back the same value, so a file that parses is represented by the  *)
(* document it parses to.                                                  *)
(***************************************************************************)
EXTENDS Integers, Sequences, FiniteSets, TLC

(* ------------------------------ bounds -------------------------------- *)

MaxHours == 2
MaxCalls == 2

(* ------------------------------ inputs -------------------------------- *)

HourNames == <<"07:00", "08:00", "09:00", "10:00">>

Hours == {HourNames[i] : i \in 1..MaxHours}

(* the store never inspects a message: two are enough to tell apart the    *)
(* records of two adds                                                     *)
Messages == {"Too hot", "Too cold"}

DefaultFile == "alerts.json"
Paths == {DefaultFile, "other.json"}

(* where the file I/O of a save ends: it succeeds, an open() raises        *)
(* OSError before anything is touched, or the write raises OSError after   *)
(* open(filename, "w") has truncated the file.                             *)
IoOutcomes == {"ok", "open_error", "write_error"}

(* --------------------------- Python dicts ----------------------------- *)

DictGet(d, k, default) == IF k \in DOMAIN d THEN d[k] ELSE default

DictSet(d, k, v) == [x \in (DOMAIN d) \cup {k} |-> IF x = k THEN v ELSE d[x]]

DictUpdate(d, e) ==
    [x \in (DOMAIN d) \cup (DOMAIN e) |-> IF x \in DOMAIN e THEN e[x] ELSE d[x]]

(* the alerts_by_time dict: insertion-ordered entries with distinct hours *)
HourKeys(m) == {m[i].hour : i \in 1..Len(m)}

IndexOf(m, h) == CHOOSE i \in 1..Len(m) : m[i].hour = h

AlertAt(m, h) == m[IndexOf(m, h)].alert

(* d.setdefault(h, a): an hour that is already there keeps its old alert *)
SetAlert_KeepExisting(m, h, a) ==
    IF h \in HourKeys(m) THEN m ELSE Append(m, [hour |-> h, alert |-> a])

SetAlert(m, h, a) ==
    IF h \in HourKeys(m)
    THEN [m EXCEPT ![IndexOf(m, h)] = [hour |-> h, alert |-> a]]
    ELSE Append(m, [hour |-> h, alert |-> a])

(* --------------------------- files on disk ---------------------------- *)

Missing == [kind |-> "missing"]
Corrupt == [kind |-> "corrupt"]
JsonDump(doc) == [kind |-> "json", doc |-> doc]

(* what open(filename, "r") + json.load does: FileNotFoundError,          *)
(* JSONDecodeError, or the parsed document                                 *)
JsonLoad(file) ==
    CASE file.kind = "missing" -> [error |-> "FileNotFoundError"]
      [] file.kind = "corrupt" -> [error |-> "JSONDecodeError"]
      [] file.kind = "json"    -> [error |-> "none", data |-> file.doc]

(* ------------------------------ handlers ------------------------------ *)

EmptyDatabase ==
    [active_alerts |-> <<>>, read_alerts |-> <<>>, alerts_by_time |-> <<>>]

(* the new record is created as already read *)
NewAlert_Read(parameter, value, message) ==
    [Parameter |-> parameter, Value |-> value, Message |-> message, read |-> TRUE]

NewAlert(parameter, value, message) ==
    [Parameter |-> parameter, Value |-> value, Message |-> message, read |-> FALSE]

(* the structure check resets a field that the file does have *)
FillMissing_Always(d, k, v) == DictSet(d, k, v)

FillMissing(d, k, v) == IF k \notin DOMAIN d THEN DictSet(d, k, v) ELSE d

(* the except branch forgets to reset the global *)
load_alerts_from_file_KeepOnError(db, file) ==
    LET r == JsonLoad(file)
    IN  IF r.error = "none"
        THEN FillMissing(
               FillMissing(
                 FillMissing(r.data, "alerts_by_time", <<>>),
                 "active_alerts", <<>>),
               "read_alerts", <<>>)
        ELSE db

(* only FileNotFoundError resets the global; a corrupt file leaves it as it was *)
load_alerts_from_file_KeepOnCorrupt(db, file) ==
    LET r == JsonLoad(file)
    IN  CASE r.error = "none" ->
               FillMissing(
                 FillMissing(
                   FillMissing(r.data, "alerts_by_time", <<>>),
                   "active_alerts", <<>>),
                 "read_alerts", <<>>)
          [] r.error = "JSONDecodeError" -> db
          [] r.error = "FileNotFoundError" -> EmptyDatabase

(* the value of the global alerts_database after load_alerts_from_file;   *)
(* db is its value before the call, which both branches rebind           *)
load_alerts_from_file(db, file) ==
    LET r == JsonLoad(file)
    IN  IF r.error = "none"
        THEN FillMissing(
               FillMissing(
                 FillMissing(r.data, "alerts_by_time", <<>>),
                 "active_alerts", <<>>),
               "read_alerts", <<>>)
        ELSE EmptyDatabase

(* the merge loop skips an hour the file already has *)
RECURSIVE MergeAlerts_DiskWins(_, _)
MergeAlerts_DiskWins(existing, items) ==
    IF items = <<>>
    THEN existing
    ELSE MergeAlerts_DiskWins(
             IF Head(items).hour \in HourKeys(existing)
             THEN existing
             ELSE Append(existing, Head(items)),
             Tail(items))

RECURSIVE MergeAlerts(_, _)
MergeAlerts(existing, items) ==
    IF items = <<>>
    THEN existing
    ELSE MergeAlerts(SetAlert(existing, Head(items).hour, Head(items).alert),
                     Tail(items))

(* a blind overwrite: alerts_by_time is replaced by the in-memory dict *)
MergedData_Overwrite(db, file) ==
    LET r == JsonLoad(file)
        existing_data == IF r.error = "none" THEN r.data ELSE EmptyDatabase
        e1 == DictSet(existing_data, "active_alerts",
                      DictGet(db, "active_alerts", <<>>))
        e2 == DictSet(e1, "read_alerts", DictGet(db, "read_alerts", <<>>))
    IN  DictSet(e2, "alerts_by_time", db["alerts_by_time"])

(* existing_data just before it is written back *)
MergedData(db, file) ==
    LET r == JsonLoad(file)
        existing_data == IF r.error = "none" THEN r.data ELSE EmptyDatabase
        e1 == DictSet(existing_data, "active_alerts",
                      DictGet(db, "active_alerts", <<>>))
        e2 == DictSet(e1, "read_alerts", DictGet(db, "read_alerts", <<>>))
        e3 == FillMissing(e2, "alerts_by_time", <<>>)
    IN  DictSet(e3, "alerts_by_time",
                MergeAlerts(e3["alerts_by_time"], db["alerts_by_time"]))

(* the two lists of the file are extended with the in-memory lists instead *)
(* of being replaced by them                                               *)
save_alerts_to_file_ExtendsLists(db, file, io) ==
    LET merged == MergedData(db, file)
        r == JsonLoad(file)
        D == IF r.error = "none" THEN r.data ELSE EmptyDatabase
        e1 == DictSet(merged, "active_alerts",
                      DictGet(D, "active_alerts", <<>>) \o db["active_alerts"])
        existing_data == DictSet(e1, "read_alerts",
                                 DictGet(D, "read_alerts", <<>>) \o db["read_alerts"])
    IN  CASE io = "ok" ->
               [db |-> DictUpdate(db, existing_data), file |-> JsonDump(existing_data)]
          [] io = "open_error" ->
               [db |-> db, file |-> file]
          [] io = "write_error" ->
               [db |-> db, file |-> Corrupt]

save_alerts_to_file(db, file, io) ==
    LET existing_data == MergedData(db, file)
    IN  CASE io = "ok" ->
               [db |-> DictUpdate(db, existing_data), file |-> JsonDump(existing_data)]
          [] io = "open_error" ->
               [db |-> db, file |-> file]
          [] io = "write_error" ->
               [db |-> db, file |-> Corrupt]

(* the write dumps the global instead of the merged existing_data *)
write_existing_data_DumpsDatabase(db, existing_data, file, io) ==
    CASE io = "ok" ->
           [db |-> db, file |-> JsonDump(db)]
      [] io = "open_error" ->
           [db |-> db, file |-> file]
      [] io = "write_error" ->
           [db |-> db, file |-> Corrupt]

(* the second half of save_alerts_to_file, from open(filename, "w") on,    *)
(* given the existing_data merged from an earlier read of the file         *)
write_existing_data(db, existing_data, file, io) ==
    CASE io = "ok" ->
           [db |-> DictUpdate(db, existing_data), file |-> JsonDump(existing_data)]
      [] io = "open_error" ->
           [db |-> db, file |-> file]
      [] io = "write_error" ->
           [db |-> db, file |-> Corrupt]

(* an add that works on the global as it is, without reloading it *)
add_alert_by_time_NoLoad(db, file, hour, parameter, value, message, io) ==
    LET changed == DictSet(db, "alerts_by_time",
                      SetAlert(db["alerts_by_time"], hour,
                               NewAlert(parameter, value, message)))
    IN  save_alerts_to_file(changed, file, io)

add_alert_by_time(db, file, hour, parameter, value, message, io) ==
    LET loaded == load_alerts_from_file(db, file)
        changed == DictSet(loaded, "alerts_by_time",
                      SetAlert(loaded["alerts_by_time"], hour,
                               NewAlert(parameter, value, message)))
    IN  save_alerts_to_file(changed, file, io)

(* returns the global without reloading it *)
get_alerts_by_time_NoLoad(db, file) == db["alerts_by_time"]

(* the returned value; alerts_database becomes load_alerts_from_file(db, file) *)
get_alerts_by_time(db, file) == load_alerts_from_file(db, file)["alerts_by_time"]

(* alert["read"] == False: an alert without the field counts as read *)
IsUnread_RequiresFlag(alert) == "read" \in DOMAIN alert /\ alert["read"] = FALSE

IsUnread(alert) == ~ DictGet(alert, "read", FALSE)

RECURSIVE UnreadOf(_)
UnreadOf(m) ==
    IF m = <<>>
    THEN <<>>
    ELSE IF IsUnread(Head(m).alert)
         THEN <<Head(m).alert>> \o UnreadOf(Tail(m))
         ELSE UnreadOf(Tail(m))

get_unread_alerts(db, file) ==
    UnreadOf(load_alerts_from_file(db, file)["alerts_by_time"])

(* ------------------------------- state -------------------------------- *)

VARIABLES
    alerts_database,   \* the module-level global document
    files,             \* the file at each path
    last,              \* the call that produced this state, with its pre-state
    ncalls,            \* calls made so far
    twin_database,     \* the same calls replayed on a store whose initially
    twin_files,        \*   corrupt files are initially missing instead
    twin_ret,
    procs,             \* two processes, each running one add_alert_by_time
    atomic_save,       \* whether a save's read, merge and write are one step
    clock              \* number of file accesses made by the processes

vars == <<alerts_database, files, last, ncalls, twin_database, twin_files, twin_ret,
          procs, atomic_save, clock>>

store_vars == <<alerts_database, last, ncalls, twin_database, twin_files, twin_ret>>
proc_vars == <<procs, atomic_save, clock>>

Procs == {1, 2}

IdleProc(db) ==
    [pc |-> "idle", db |-> db, hour |-> "", message |-> "", io |-> "ok",
     existing_data |-> EmptyDatabase, seen |-> {},
     load_at |-> 0, read_at |-> 0, write_at |-> 0]

Parameters == {"Temperature"}
Values == {30}

OldRead == [Parameter |-> "Humidity", Value |-> 80, Message |-> "Too humid", read |-> TRUE]
OldUnflagged == [Parameter |-> "Humidity", Value |-> 80, Message |-> "Too humid"]
OldUnread == [Parameter |-> "CO2", Value |-> 900, Message |-> "Too stuffy", read |-> FALSE]

(* files that may be on disk before the program starts: no file, invalid  *)
(* JSON, an object without any field, a document without the two lists    *)
(* and with a field the store does not know, and a complete document       *)
InitFiles ==
    { Missing,
      Corrupt,
      JsonDump([k \in {} |-> <<>>]),
      JsonDump([alerts_by_time |-> <<[hour |-> HourNames[1], alert |-> OldUnread]>>,
                version |-> <<"1">>]),
      JsonDump([active_alerts |-> <<"a1">>, read_alerts |-> <<"r1">>,
                alerts_by_time |-> <<[hour |-> HourNames[2], alert |-> OldUnflagged],
                                     [hour |-> HourNames[1], alert |-> OldRead],
                                     [hour |-> "23:30", alert |-> OldUnread]>>]) }

NoCall ==
    [op |-> "start", filename |-> DefaultFile, hour |-> "", parameter |-> "",
     value |-> 0, message |-> "",
     io |-> "ok", pre_db |-> EmptyDatabase, pre_file |-> Missing, ret |-> <<>>,
     after_save |-> FALSE, saved_db |-> EmptyDatabase]

AsMissing(file) == IF file.kind = "corrupt" THEN Missing ELSE file

(* the module body ends with load_alerts_from_file() on the default file *)
Init ==
    /\ files \in [Paths -> InitFiles]
    /\ alerts_database = load_alerts_from_file(EmptyDatabase, files[DefaultFile])
    /\ last = NoCall
    /\ ncalls = 0
    /\ twin_files = [p \in Paths |-> AsMissing(files[p])]
    /\ twin_database = load_alerts_from_file(EmptyDatabase, twin_files[DefaultFile])
    /\ twin_ret = <<>>
    /\ procs = [p \in Procs |-> IdleProc(EmptyDatabase)]
    /\ atomic_save = FALSE
    /\ clock = 0

Called(op, filename, hour, parameter, value, message, io, ret) ==
    [op |-> op, filename |-> filename, hour |-> hour, parameter |-> parameter,
     value |-> value, message |-> message,
     io |-> io, pre_db |-> alerts_database, pre_file |-> files[filename],
     ret |-> ret,
     after_save |-> (/\ op \in {"load", "save"}
                     /\ last.op = "save"
                     /\ last.io = "ok"
                     /\ last.filename = filename),
     saved_db |-> IF op \in {"load", "save"} /\ last.op = "save" /\ last.io = "ok"
                     /\ last.filename = filename
                  THEN last.pre_db ELSE EmptyDatabase]

(* a load that leaves an empty document behind where it found no readable file *)
LoadAlertsFromFile_CreatesFile(filename) ==
    /\ ncalls < MaxCalls
    /\ alerts_database' = load_alerts_from_file(alerts_database, files[filename])
    /\ twin_database' = load_alerts_from_file(twin_database, twin_files[filename])
    /\ last' = Called("load", filename, "", "", 0, "", "ok", <<>>)
    /\ twin_ret' = <<>>
    /\ ncalls' = ncalls + 1
    /\ files' = [files EXCEPT ![filename] =
                    IF @.kind = "json" THEN @ ELSE JsonDump(EmptyDatabase)]
    /\ UNCHANGED twin_files
    /\ UNCHANGED proc_vars

LoadAlertsFromFile(filename) ==
    /\ ncalls < MaxCalls
    /\ alerts_database' = load_alerts_from_file(alerts_database, files[filename])
    /\ twin_database' = load_alerts_from_file(twin_database, twin_files[filename])
    /\ last' = Called("load", filename, "", "", 0, "", "ok", <<>>)
    /\ twin_ret' = <<>>
    /\ ncalls' = ncalls + 1
    /\ UNCHANGED <<files, twin_files>>
    /\ UNCHANGED proc_vars

SaveAlertsToFile(filename, io) ==
    /\ ncalls < MaxCalls
    /\ LET r == save_alerts_to_file(alerts_database, files[filename], io)
           t == save_alerts_to_file(twin_database, twin_files[filename], io)
       IN  /\ alerts_database' = r.db
           /\ files' = [files EXCEPT ![filename] = r.file]
           /\ twin_database' = t.db
           /\ twin_files' = [twin_files EXCEPT ![filename] = t.file]
    /\ last' = Called("save", filename, "", "", 0, "", io, <<>>)
    /\ twin_ret' = <<>>
    /\ ncalls' = ncalls + 1
    /\ UNCHANGED proc_vars

AddAlertByTime(hour, parameter, value, message, filename, io) ==
    /\ ncalls < MaxCalls
    /\ LET r == add_alert_by_time(alerts_database, files[filename], hour, parameter, value, message, io)
           t == add_alert_by_time(twin_database, twin_files[filename], hour, parameter, value, message, io)
       IN  /\ alerts_database' = r.db
           /\ files' = [files EXCEPT ![filename] = r.file]
           /\ twin_database' = t.db
           /\ twin_files' = [twin_files EXCEPT ![filename] = t.file]
    /\ last' = Called("add", filename, hour, parameter, value, message, io, <<>>)
    /\ twin_ret' = <<>>
    /\ ncalls' = ncalls + 1
    /\ UNCHANGED proc_vars

GetAlertsByTime(filename) ==
    /\ ncalls < MaxCalls
    /\ alerts_database' = load_alerts_from_file(alerts_database, files[filename])
    /\ twin_database' = load_alerts_from_file(twin_database, twin_files[filename])
    /\ last' = Called("get", filename, "", "", 0, "", "ok",
                    get_alerts_by_time(alerts_database, files[filename]))
    /\ twin_ret' = get_alerts_by_time(twin_database, twin_files[filename])
    /\ ncalls' = ncalls + 1
    /\ UNCHANGED <<files, twin_files>>
    /\ UNCHANGED proc_vars

GetUnreadAlerts(filename) ==
    /\ ncalls < MaxCalls
    /\ alerts_database' = load_alerts_from_file(alerts_database, files[filename])
    /\ twin_database' = load_alerts_from_file(twin_database, twin_files[filename])
    /\ last' = Called("unread", filename, "", "", 0, "", "ok",
                    get_unread_alerts(alerts_database, files[filename]))
    /\ twin_ret' = get_unread_alerts(twin_database, twin_files[filename])
    /\ ncalls' = ncalls + 1
    /\ UNCHANGED <<files, twin_files>>
    /\ UNCHANGED proc_vars

Next ==
    \/ \E filename \in Paths : LoadAlertsFromFile(filename)
    \/ \E filename \in Paths, io \in IoOutcomes : SaveAlertsToFile(filename, io)
    \/ \E hour \in Hours, parameter \in Parameters, value \in Values,
          message \in Messages, filename \in Paths, io \in IoOutcomes :
          AddAlertByTime(hour, parameter, value, message, filename, io)
    \/ \E filename \in Paths : GetAlertsByTime(filename)
    \/ \E filename \in Paths : GetUnreadAlerts(filename)

Spec == Init /\ [][Next]_vars

(* the program restricted to addAlertByTime and the two queries *)
NextAddQuery ==
    \/ \E hour \in Hours, parameter \in Parameters, value \in Values,
          message \in Messages, filename \in Paths, io \in IoOutcomes :
          AddAlertByTime(hour, parameter, value, message, filename, io)
    \/ \E filename \in Paths : GetAlertsByTime(filename)
    \/ \E filename \in Paths : GetUnreadAlerts(filename)

SpecAddQuery == Init /\ [][NextAddQuery]_vars

(* ---------------- two processes adding to the same file ---------------- *)

(* each process has imported the module, which loaded the default file *)
InitProcs ==
    /\ files \in {[p \in Paths |-> IF p = DefaultFile THEN f ELSE Missing] : f \in InitFiles}
    /\ procs = [p \in Procs |->
                   IdleProc(load_alerts_from_file(EmptyDatabase, files[DefaultFile]))]
    /\ atomic_save \in BOOLEAN
    /\ clock = 0
    /\ alerts_database = EmptyDatabase
    /\ last = NoCall
    /\ ncalls = 0
    /\ twin_files = files
    /\ twin_database = EmptyDatabase
    /\ twin_ret = <<>>

(* add_alert_by_time up to the call of save: the load and the assignment *)
ProcLoad(p, hour, parameter, value, message) ==
    /\ procs[p].pc = "idle"
    /\ LET loaded == load_alerts_from_file(procs[p].db, files[DefaultFile])
           changed == DictSet(loaded, "alerts_by_time",
                         SetAlert(loaded["alerts_by_time"], hour,
                                  NewAlert(parameter, value, message)))
       IN  procs' = [procs EXCEPT ![p] =
                       [@ EXCEPT !.pc = "loaded", !.db = changed, !.hour = hour,
                                 !.message = message, !.load_at = clock + 1,
                                 !.seen = HourKeys(loaded["alerts_by_time"])]]
    /\ clock' = clock + 1
    /\ UNCHANGED <<files, atomic_save, store_vars>>

(* the first half of save_alerts_to_file: read the file and merge *)
ProcSaveRead(p, io) ==
    /\ procs[p].pc = "loaded"
    /\ ~ atomic_save
    /\ io \in {"ok", "open_error"}
    /\ procs' = [procs EXCEPT ![p] =
                    IF io = "ok"
                    THEN [@ EXCEPT !.pc = "merged", !.read_at = clock + 1,
                                   !.existing_data =
                                       MergedData(procs[p].db, files[DefaultFile])]
                    ELSE [@ EXCEPT !.pc = "done", !.io = io]]
    /\ clock' = clock + 1
    /\ UNCHANGED <<files, atomic_save, store_vars>>

(* the second half: write existing_data back and update the global *)
ProcSaveWrite(p, io) ==
    /\ procs[p].pc = "merged"
    /\ LET r == write_existing_data(procs[p].db, procs[p].existing_data,
                                    files[DefaultFile], io)
       IN  /\ files' = [files EXCEPT ![DefaultFile] = r.file]
           /\ procs' = [procs EXCEPT ![p] =
                           [@ EXCEPT !.pc = "done", !.db = r.db, !.io = io,
                                     !.write_at = clock + 1]]
    /\ clock' = clock + 1
    /\ UNCHANGED <<atomic_save, store_vars>>

(* save_alerts_to_file as one step *)
ProcSaveAtomic(p, io) ==
    /\ procs[p].pc = "loaded"
    /\ atomic_save
    /\ LET r == save_alerts_to_file(procs[p].db, files[DefaultFile], io)
       IN  /\ files' = [files EXCEPT ![DefaultFile] = r.file]
           /\ procs' = [procs EXCEPT ![p] =
                           [@ EXCEPT !.pc = "done", !.db = r.db, !.io = io,
                                     !.read_at = clock + 1, !.write_at = clock + 1]]
    /\ clock' = clock + 1
    /\ UNCHANGED <<atomic_save, store_vars>>

NextProcs ==
    \/ \E p \in Procs, hour \in Hours, parameter \in Parameters, value \in Values,
          message \in Messages : ProcLoad(p, hour, parameter, value, message)
    \/ \E p \in Procs, io \in IoOutcomes : ProcSaveRead(p, io)
    \/ \E p \in Procs, io \in IoOutcomes : ProcSaveWrite(p, io)
    \/ \E p \in Procs, io \in IoOutcomes : ProcSaveAtomic(p, io)

SpecProcs == InitProcs /\ [][NextProcs]_vars

TypeOK ==
    /\ {"active_alerts", "read_alerts", "alerts_by_time"} \subseteq DOMAIN alerts_database
    /\ ncalls \in 0..MaxCalls

(* ------------------------------- claims ------------------------------- *)

(* the document a file holds; a missing or corrupt file counts as empty *)
DocOnDisk(file) ==
    IF file.kind = "json"
    THEN file.doc
    ELSE [active_alerts |-> <<>>, read_alerts |-> <<>>, alerts_by_time |-> <<>>]

(* a field of a document, an absent field counting as empty *)
FieldOf(doc, k) == IF k \in DOMAIN doc THEN doc[k] ELSE <<>>

StoreFields == {"active_alerts", "read_alerts", "alerts_by_time"}

(* C1: after a successful save(path) the file holds the in-memory          *)
(* active_alerts and read_alerts, and its alerts_by_time has the in-memory *)
(* record at every in-memory hour, the previous on-disk record at every    *)
(* hour that was only on disk, and no other hour.                          *)
C1_SaveMergesIntoDisk ==
    (last.op = "save" /\ last.io = "ok") =>
        LET M == last.pre_db
            mM == M["alerts_by_time"]
            mD == FieldOf(DocOnDisk(last.pre_file), "alerts_by_time")
            N == files[last.filename]
        IN  /\ N.kind = "json"
            /\ StoreFields \subseteq DOMAIN N.doc
            /\ N.doc["active_alerts"] = M["active_alerts"]
            /\ N.doc["read_alerts"] = M["read_alerts"]
            /\ LET mN == N.doc["alerts_by_time"]
               IN  /\ HourKeys(mN) = HourKeys(mM) \cup HourKeys(mD)
                   /\ Len(mN) = Cardinality(HourKeys(mN))
                   /\ \A h \in HourKeys(mM) : AlertAt(mN, h) = AlertAt(mM, h)
                   /\ \A h \in HourKeys(mD) \ HourKeys(mM) :
                          AlertAt(mN, h) = AlertAt(mD, h)

(* a save that merged: an hour only on disk, an hour on both sides with    *)
(* different records, and lists that differ between memory and disk        *)
C1_Witness ==
    /\ last.op = "save" /\ last.io = "ok" /\ last.pre_file.kind = "json"
    /\ LET mM == last.pre_db["alerts_by_time"]
           D == last.pre_file.doc
           mD == FieldOf(D, "alerts_by_time")
       IN  /\ HourKeys(mD) \ HourKeys(mM) # {}
           /\ \E h \in HourKeys(mM) \cap HourKeys(mD) : AlertAt(mM, h) # AlertAt(mD, h)
           /\ FieldOf(D, "active_alerts") # last.pre_db["active_alerts"]
           /\ FieldOf(D, "read_alerts") # last.pre_db["read_alerts"]

(* C2: addAlertByTime(h, ...) on a readable on-disk document changes       *)
(* nothing on disk except alerts_by_time[h]: every other hour keeps its    *)
(* record, no other hour appears, and active_alerts and read_alerts keep   *)
(* their values (an absent field or unreadable file counting as empty).    *)
C2_AddTouchesOnlyItsHour ==
    (last.op = "add" /\ last.pre_file.kind = "json") =>
        LET D == last.pre_file.doc
            mD == FieldOf(D, "alerts_by_time")
            N == DocOnDisk(files[last.filename])
        IN  /\ FieldOf(N, "active_alerts") = FieldOf(D, "active_alerts")
            /\ FieldOf(N, "read_alerts") = FieldOf(D, "read_alerts")
            /\ \A k \in DOMAIN D \ StoreFields : k \in DOMAIN N /\ N[k] = D[k]
            /\ LET mN == FieldOf(N, "alerts_by_time")
               IN  /\ HourKeys(mN) \subseteq HourKeys(mD) \cup {last.hour}
                   /\ \A h \in HourKeys(mD) \ {last.hour} :
                          h \in HourKeys(mN) /\ AlertAt(mN, h) = AlertAt(mD, h)

(* C3: after a successful addAlertByTime(h, p, v, m, path) the on-disk and *)
(* the in-memory alerts_by_time each hold exactly one entry at h, and it   *)
(* is {Parameter: p, Value: v, Message: m, read: false}, whatever was at h *)
(* before.                                                                 *)
C3_AddOverwrites ==
    (last.op = "add" /\ last.io = "ok") =>
        LET rec == [Parameter |-> last.parameter, Value |-> last.value,
                    Message |-> last.message, read |-> FALSE]
            N == files[last.filename]
            OneAt(m) ==
                /\ Cardinality({i \in 1..Len(m) : m[i].hour = last.hour}) = 1
                /\ \A i \in 1..Len(m) : m[i].hour = last.hour => m[i].alert = rec
        IN  /\ N.kind = "json"
            /\ "alerts_by_time" \in DOMAIN N.doc
            /\ OneAt(N.doc["alerts_by_time"])
            /\ "alerts_by_time" \in DOMAIN alerts_database
            /\ OneAt(alerts_database["alerts_by_time"])

(* an add over an alert that was marked read *)
C3_Witness ==
    /\ last.op = "add" /\ last.io = "ok" /\ last.pre_file.kind = "json"
    /\ LET mD == FieldOf(last.pre_file.doc, "alerts_by_time")
       IN  /\ last.hour \in HourKeys(mD)
           /\ "read" \in DOMAIN AlertAt(mD, last.hour)
           /\ AlertAt(mD, last.hour)["read"] = TRUE
           /\ AlertAt(mD, last.hour)["Message"] # last.message

(* C4: a load(path) that immediately follows a successful save(path) of    *)
(* the in-memory document D yields a document that has every hour of D's   *)
(* alerts_by_time, with D's record.                                        *)
C4_SaveLoadRoundTrip ==
    (last.op = "load" /\ last.after_save) =>
        LET mD == last.saved_db["alerts_by_time"]
            mL == FieldOf(alerts_database, "alerts_by_time")
        IN  \A h \in HourKeys(mD) :
                h \in HourKeys(mL) /\ AlertAt(mL, h) = AlertAt(mD, h)

(* a round trip in which the save merged: the loaded map has D's hours and *)
(* more                                                                    *)
C4_Witness ==
    /\ last.op = "load" /\ last.after_save
    /\ LET mD == last.saved_db["alerts_by_time"]
           mL == FieldOf(alerts_database, "alerts_by_time")
       IN  /\ mD # <<>>
           /\ HourKeys(mL) \ HourKeys(mD) # {}

(* C5: right after every successful save(path), direct or as the last step *)
(* of addAlertByTime, the in-memory document equals the document on disk   *)
(* at that path.                                                           *)
C5_MemoryEqualsDiskAfterSave ==
    (last.op \in {"save", "add"} /\ last.io = "ok") =>
        /\ files[last.filename].kind = "json"
        /\ alerts_database = files[last.filename].doc

(* C6: load(path) on a missing or corrupt file sets the in-memory document *)
(* to the empty three-field document whatever it held before, and          *)
(* getAlertsByTime and getUnreadAlerts then return nothing.                *)
C6_LoadDefaults ==
    (/\ last.op \in {"load", "get", "unread"}
     /\ last.pre_file.kind \in {"missing", "corrupt"}) =>
        /\ alerts_database =
             [active_alerts |-> <<>>, read_alerts |-> <<>>, alerts_by_time |-> <<>>]
        /\ last.ret = <<>>

(* a load of a corrupt file while memory held alerts and lists *)
C6_Witness ==
    /\ last.op = "load" /\ last.pre_file.kind = "corrupt"
    /\ last.pre_db["alerts_by_time"] # <<>>
    /\ last.pre_db["active_alerts"] # <<>>

(* C7: a corrupt file behaves as a missing one: replaying the same calls   *)
(* on a store whose initially corrupt files are missing gives the same     *)
(* results, the same in-memory document and the same documents on disk,    *)
(* and a successful save or add on a corrupt file leaves a valid document  *)
(* with the three fields.                                                  *)
C7_CorruptAsMissing ==
    /\ twin_database = alerts_database
    /\ twin_ret = last.ret
    /\ \A p \in Paths : AsMissing(twin_files[p]) = AsMissing(files[p])
    /\ (/\ last.op \in {"save", "add"}
        /\ last.io = "ok"
        /\ last.pre_file.kind = "corrupt") =>
            /\ files[last.filename].kind = "json"
            /\ StoreFields \subseteq DOMAIN files[last.filename].doc

(* the first call is a successful add on a file that was corrupt from the  *)
(* start, made while memory held what was loaded from the other file       *)
C7_Witness ==
    /\ ncalls = 1
    /\ last.op = "add" /\ last.io = "ok" /\ last.pre_file.kind = "corrupt"
    /\ last.filename # DefaultFile
    /\ last.pre_db["alerts_by_time"] # <<>>
    /\ files[last.filename].kind = "json"

(* C8: getUnreadAlerts(path) returns, in the order of the on-disk map, the *)
(* record of every entry whose read field is absent or false, once each,   *)
(* and nothing else.                                                       *)
C8_UnreadFilter ==
    (last.op = "unread") =>
        LET m == FieldOf(DocOnDisk(files[last.filename]), "alerts_by_time")
            unread == {i \in 1..Len(m) :
                          "read" \notin DOMAIN m[i].alert \/ m[i].alert["read"] = FALSE}
        IN  /\ Len(last.ret) = Cardinality(unread)
            /\ \A i \in unread :
                   last.ret[Cardinality({j \in unread : j <= i})] = m[i].alert

(* a query over a map with a read alert between an alert without the flag  *)
(* and an unread one                                                       *)
C8_Witness ==
    /\ last.op = "unread"
    /\ Len(last.ret) >= 2
    /\ LET m == FieldOf(DocOnDisk(files[last.filename]), "alerts_by_time")
       IN  /\ \E i \in 1..Len(m) :
                  "read" \in DOMAIN m[i].alert /\ m[i].alert["read"] = TRUE
           /\ \E i \in 1..Len(m) : "read" \notin DOMAIN m[i].alert
           /\ \E i \in 1..Len(m) :
                  "read" \in DOMAIN m[i].alert /\ m[i].alert["read"] = FALSE

(* C9: getAlertsByTime(path) returns the alerts_by_time map that is on     *)
(* disk when it is called, whatever the in-memory document held.           *)
C9_GetReturnsDisk ==
    (last.op = "get") =>
        last.ret = FieldOf(DocOnDisk(last.pre_file), "alerts_by_time")

(* a query made while memory held an alert that is not on disk *)
C9_Witness ==
    /\ last.op = "get"
    /\ last.pre_file.kind = "json"
    /\ last.ret # <<>>
    /\ HourKeys(last.pre_db["alerts_by_time"]) \ HourKeys(last.ret) # {}

(* C10: a save whose file I/O fails is a no-op: the in-memory document and *)
(* the document on disk are what they were before the call (a missing or  *)
(* unreadable file counting as the empty document).                        *)
C10_FailedSaveIsNoOp ==
    (last.op = "save" /\ last.io # "ok") =>
        LET D == DocOnDisk(last.pre_file)
            N == DocOnDisk(files[last.filename])
        IN  /\ alerts_database = last.pre_db
            /\ \A k \in (DOMAIN D) \cup (DOMAIN N) : FieldOf(N, k) = FieldOf(D, k)

(* the entries of a document's alerts_by_time that are marked read *)
ReadEntries(doc) ==
    LET m == FieldOf(doc, "alerts_by_time")
    IN  {m[i] : i \in {j \in 1..Len(m) :
                          "read" \in DOMAIN m[j].alert /\ m[j].alert["read"] = TRUE}}

AllReadEntries(fs, db) ==
    ReadEntries(db) \cup UNION {ReadEntries(DocOnDisk(fs[p])) : p \in Paths}

(* C11 as stated: outside add, an on-disk record whose read is false is    *)
(* never followed at its hour by a record whose read is true.              *)
C11_FalseStaysFalse ==
    (last.op \in {"load", "save", "get", "unread"}) =>
        LET mD == FieldOf(DocOnDisk(last.pre_file), "alerts_by_time")
            mN == FieldOf(DocOnDisk(files[last.filename]), "alerts_by_time")
        IN  \A h \in HourKeys(mD) \cap HourKeys(mN) :
                ("read" \in DOMAIN AlertAt(mD, h) /\ AlertAt(mD, h)["read"] = FALSE)
                    => ~ ("read" \in DOMAIN AlertAt(mN, h)
                          /\ AlertAt(mN, h)["read"] = TRUE)

(* C11 amended: no operation creates a record with read = true: every      *)
(* entry marked read that is on disk or in memory after a call was, at the *)
(* same hour and with the same content, on disk or in memory before it; so *)
(* once no stored record is marked read none ever is, and getUnreadAlerts  *)
(* then returns every alert of the file.                                   *)
C11_NoReadFlagCreated ==
    [][ /\ AllReadEntries(files', alerts_database')
              \subseteq AllReadEntries(files, alerts_database)
        /\ (AllReadEntries(files, alerts_database) = {}
              => AllReadEntries(files', alerts_database') = {})
        /\ (last'.op = "unread" /\ AllReadEntries(files, alerts_database) = {})
              => Len(last'.ret) =
                   Len(FieldOf(DocOnDisk(files'[last'.filename]), "alerts_by_time"))
      ]_vars

(* no stored record is marked read, an add has been made, and              *)
(* getUnreadAlerts returns both alerts of the file                         *)
C11_Witness ==
    /\ ncalls = 2
    /\ last.op = "unread"
    /\ AllReadEntries(files, alerts_database) = {}
    /\ Len(last.ret) = 2
    /\ \E i \in 1..2 : last.ret[i]["Message"] \in Messages

(* C12: after load(path) of any file the in-memory document has the three  *)
(* fields; a field the file lacks is empty, and every field of the file,   *)
(* known to the store or not, has its loaded value; there is nothing else. *)
C12_LoadCompletesDocument ==
    (last.op = "load") =>
        LET r == last.pre_file
            D == IF r.kind = "json" THEN r.doc ELSE [k \in {} |-> <<>>]
        IN  /\ DOMAIN alerts_database = (DOMAIN D) \cup StoreFields
            /\ \A k \in DOMAIN D : alerts_database[k] = D[k]
            /\ \A k \in StoreFields \ DOMAIN D : alerts_database[k] = <<>>

(* a load of a file that lacks the two lists, has alerts and has a field   *)
(* the store does not know                                                 *)
C12_Witness ==
    /\ last.op = "load"
    /\ last.pre_file.kind = "json"
    /\ "active_alerts" \notin DOMAIN last.pre_file.doc
    /\ "read_alerts" \notin DOMAIN last.pre_file.doc
    /\ "version" \in DOMAIN last.pre_file.doc
    /\ "version" \in DOMAIN alerts_database
    /\ alerts_database["alerts_by_time"] # <<>>

(* the file holds at process p's hour the record p added *)
HoldsRecordOf(p) ==
    LET m == FieldOf(DocOnDisk(files[DefaultFile]), "alerts_by_time")
    IN  /\ procs[p].hour \in HourKeys(m)
        /\ AlertAt(m, procs[p].hour) =
             [Parameter |-> "Temperature", Value |-> 30,
              Message |-> procs[p].message, read |-> FALSE]

BothReturnedOk == \A p \in Procs : procs[p].pc = "done" /\ procs[p].io = "ok"

(* process q overwrote what p had written: q wrote after p, from a file   *)
(* read made before p's write, or from a load made before p's write that   *)
(* already found a record at p's hour                                      *)
StaleOverwrite(p, q) ==
    /\ procs[p].write_at < procs[q].write_at
    /\ \/ procs[q].read_at < procs[p].write_at
       \/ /\ procs[q].load_at < procs[p].write_at
          /\ procs[p].hour \in procs[q].seen

(* C13: merge-on-save does not rule out a lost update: with the read and   *)
(* the write of a save as separate steps, once both calls have returned    *)
(* successfully the file holds the record of the call that wrote last, and *)
(* it lacks the record of the other call, added at another hour, only when *)
(* the later writer worked from a read or a load made before the other's   *)
(* write; such a run is reachable.                                         *)
C13_LostOnlyByStaleRead ==
    (~ atomic_save /\ BothReturnedOk) =>
        \A p \in Procs : \A q \in Procs \ {p} :
            /\ (procs[p].write_at > procs[q].write_at) => HoldsRecordOf(p)
            /\ (procs[p].hour # procs[q].hour /\ ~ HoldsRecordOf(p)) =>
                   StaleOverwrite(p, q)

(* both calls returned successfully, at different hours that were not on   *)
(* disk before, and the file lacks the hour of one of them                 *)
C13_Witness ==
    /\ ~ atomic_save
    /\ BothReturnedOk
    /\ procs[1].hour # procs[2].hour
    /\ \A p \in Procs : procs[p].seen = {}
    /\ files[DefaultFile].kind = "json"
    /\ \E p \in Procs :
           procs[p].hour \notin HourKeys(FieldOf(files[DefaultFile].doc, "alerts_by_time"))

(* C14 as stated: when each save is atomic, two concurrent adds at         *)
(* different hours both end up on disk: after both calls have returned     *)
(* (their saves having succeeded) the file holds at each of the two hours  *)
(* the record that call wrote, whatever the file held at the start.        *)
C14_AtomicSavesKeepBothHours ==
    (atomic_save /\ BothReturnedOk /\ procs[1].hour # procs[2].hour) =>
        \A p \in Procs : HoldsRecordOf(p)

(* C14 amended: with atomic saves that succeed, the record of an add at    *)
(* another hour is missing afterwards only when the other call had loaded  *)
(* the file, with a record already at that hour, before this call's save   *)
(* and saved after it; so both records are on disk when neither hour was   *)
(* in the file at the start.                                               *)
C14_AtomicSavesLoseOnlyToStaleLoad ==
    (atomic_save /\ BothReturnedOk /\ procs[1].hour # procs[2].hour) =>
        \A p \in Procs : \A q \in Procs \ {p} :
            /\ ~ HoldsRecordOf(p) =>
                   /\ procs[p].write_at < procs[q].write_at
                   /\ procs[q].load_at < procs[p].write_at
                   /\ procs[p].hour \in procs[q].seen
            /\ (procs[1].hour \notin procs[2].seen /\ procs[2].hour \notin procs[1].seen)
                   => HoldsRecordOf(p)

(* both processes loaded a file without their hours before either saved,   *)
(* and both records are on disk                                            *)
C14_Witness ==
    /\ atomic_save
    /\ BothReturnedOk
    /\ procs[1].hour # procs[2].hour
    /\ \A p \in Procs : \A q \in Procs : procs[p].load_at < procs[q].write_at
    /\ \A p \in Procs : procs[p].seen = {"23:30"} \/ procs[p].seen = {}
    /\ \A p \in Procs : HoldsRecordOf(p)

(* the hour keys a file holds, none for a missing or unreadable file *)
HourKeysOnDisk(file) == HourKeys(FieldOf(DocOnDisk(file), "alerts_by_time"))

C16_ReadSideKeepsFiles ==
    [][last'.op \in {"load", "get", "unread"} => files' = files]_vars

(* after two calls, the second a query on a corrupt file, that file is     *)
(* still corrupt and the other file is still missing                       *)
C16_Witness ==
    /\ ncalls = 2
    /\ last.op \in {"get", "unread"}
    /\ last.pre_file = Corrupt
    /\ files[last.filename] = Corrupt
    /\ \E f \in Paths \ {last.filename} : files[f] = Missing

(* the entries of an alerts_by_time map *)
EntriesOf(m) == {m[i] : i \in 1..Len(m)}

(* C17: under addAlertByTime, getAlertsByTime and getUnreadAlerts calls    *)
(* over two paths, a file changes only in an addAlertByTime call on its    *)
(* own path, and what that call leaves in the file comes from that file    *)
(* alone: every record is one the file already held or the record just     *)
(* added, and every other field is the file's own or empty. So no record   *)
(* added under the other path ever reaches it.                             *)
C17_PathsIsolated ==
    [][\A f \in Paths :
          /\ files'[f] # files[f] => (last'.op = "add" /\ last'.filename = f)
          /\ (last'.op = "add" /\ last'.filename = f) =>
                LET D == DocOnDisk(files[f])
                    N == DocOnDisk(files'[f])
                    rec == [hour |-> last'.hour,
                            alert |-> [Parameter |-> last'.parameter,
                                       Value |-> last'.value,
                                       Message |-> last'.message, read |-> FALSE]]
                IN  /\ EntriesOf(FieldOf(N, "alerts_by_time"))
                           \subseteq EntriesOf(FieldOf(D, "alerts_by_time")) \cup {rec}
                    /\ \A k \in DOMAIN N \ {"alerts_by_time"} :
                           N[k] = <<>> \/ (k \in DOMAIN D /\ N[k] = D[k])
      ]_vars

(* an add on the second path right after an add at another hour on the     *)
(* first: memory held the first path's new record when the call began, and *)
(* neither file holds the record added under the other path                *)
C17_Witness ==
    /\ ncalls = 2
    /\ last.op = "add" /\ last.io = "ok" /\ last.filename # DefaultFile
    /\ files[DefaultFile].kind = "json"
    /\ \E h \in Hours \ {last.hour} :
          /\ h \in HourKeys(last.pre_db["alerts_by_time"])
          /\ AlertAt(last.pre_db["alerts_by_time"], h)["Parameter"] \in Parameters
          /\ h \in HourKeysOnDisk(files[DefaultFile])
          /\ AlertAt(files[DefaultFile].doc["alerts_by_time"], h)["Parameter"] \in Parameters
          /\ h \notin HourKeysOnDisk(files[last.filename])
    /\ last.hour \notin HourKeysOnDisk(files[DefaultFile])

(* C18: save is idempotent: a successful save(path) that directly follows  *)
(* a successful save(path) leaves the file and the in-memory document as   *)
(* the first save left them.                                               *)
C18_SaveIdempotent ==
    (last.op = "save" /\ last.io = "ok" /\ last.after_save) =>
        /\ files[last.filename] = last.pre_file
        /\ alerts_database = last.pre_db

(* a second save after a first one that merged: the file has hours the     *)
(* memory did not have before the first save, which changed the memory     *)
C18_Witness ==
    /\ last.op = "save" /\ last.io = "ok" /\ last.after_save
    /\ files[last.filename].kind = "json"
    /\ HourKeys(last.saved_db["alerts_by_time"]) # {}
    /\ HourKeysOnDisk(files[last.filename]) \ HourKeys(last.saved_db["alerts_by_time"]) # {}
    /\ alerts_database # last.saved_db

====
